---- MODULE Spec2Model ----
(***************************************************************************)
(* Model of firefox_profile_manager.py: the profiles.ini registry, the     *)
(* profile directories and the list shown in the window, under the         *)
(* handlers load_profiles, create_profile, rename_profile and              *)
(* delete_profile.                                                         *)
(*                                                                         *)
(* Strings are sequences of one-character strings.  A path is a record     *)
(* [abs, comps]: whether the string starts with "/" and its components; a  *)
(* component is [id, slug], id > 0 standing for the 16 hex digits that     *)
(* create_profile puts before the "." (id = 0: a plain directory name).    *)
(* The registry file is a sequence of sections [sec, opts]; opts maps each *)
(* key, spelled as it is in the file, to its value as written.             *)
(***************************************************************************)
EXTENDS Integers, Sequences, FiniteSets, TLC

VARIABLES file, fs, tree, pc, pending, last, nextId, ops

vars == <<file, fs, tree, pc, pending, last, nextId, ops>>

(* ---------------------------- bounds ----------------------------------- *)

\* the buttons are pressed at most MaxOps times in a run
MaxOps == 2

\* the registry the program starts on has at most MaxInitProfiles Profile sections
MaxInitProfiles == 2

(* ---------------------------- characters ------------------------------- *)

Digits == {"0", "1", "2", "3", "4", "5", "6", "7", "8", "9"}

Letters == {"a", "b", "B", "U", "n", "k", "o", "w"}

\* the characters of the model in code point order
CharOrder ==
    <<" ", "!", "-", "0", "1", "2", "3", "4", "5", "6", "7", "8", "9",
      "B", "U", "_", "a", "b", "k", "n", "o", "w">>

Ord(c) == CHOOSE i \in 1..Len(CharOrder) : CharOrder[i] = c

DigitVal(c) == Ord(c) - Ord("0")

DigitChar(d) == CharOrder[Ord("0") + d]

\* str.__lt__ / str.__le__: code point order, a proper prefix first
RECURSIVE StrLeq(_, _)
StrLeq(s, t) ==
    IF s = <<>> THEN TRUE
    ELSE IF t = <<>> THEN FALSE
    ELSE IF Ord(Head(s)) < Ord(Head(t)) THEN TRUE
    ELSE IF Ord(Head(s)) > Ord(Head(t)) THEN FALSE
    ELSE StrLeq(Tail(s), Tail(t))

\* str.isalnum
isalnum(s) == Len(s) > 0 /\ \A i \in 1..Len(s) : s[i] \in Letters \cup Digits

\* str.replace(old, new) for a one-character old
RECURSIVE replace(_, _, _)
replace(s, old, new) ==
    IF s = <<>> THEN <<>>
    ELSE (IF Head(s) = old THEN new ELSE <<Head(s)>>) \o replace(Tail(s), old, new)

\* str.lower
lower(s) == [i \in 1..Len(s) |-> IF s[i] = "B" THEN "b" ELSE IF s[i] = "U" THEN "u" ELSE s[i]]

\* str.strip, as configparser applies it to a value it reads
RECURSIVE lstrip(_)
lstrip(s) == IF s # <<>> /\ Head(s) = " " THEN lstrip(Tail(s)) ELSE s

RECURSIVE rstrip(_)
rstrip(s) == IF s # <<>> /\ s[Len(s)] = " " THEN rstrip(SubSeq(s, 1, Len(s) - 1)) ELSE s

strip(s) == rstrip(lstrip(s))

(* ---------------------------- int() and str() -------------------------- *)

Unsigned(s) == IF s # <<>> /\ Head(s) \in {"-", "+"} THEN Tail(s) ELSE s

\* the strings int() accepts: blanks around, a sign, digits with single "_" between
IsIntLiteral(s) ==
    LET b == Unsigned(strip(s)) IN
    /\ b # <<>>
    /\ \A i \in 1..Len(b) : b[i] \in Digits \cup {"_"}
    /\ b[1] \in Digits /\ b[Len(b)] \in Digits
    /\ \A i \in 1..(Len(b) - 1) : ~(b[i] = "_" /\ b[i + 1] = "_")

RECURSIVE DigitsValue(_, _)
DigitsValue(b, acc) ==
    IF b = <<>> THEN acc
    ELSE DigitsValue(Tail(b), IF Head(b) = "_" THEN acc ELSE 10 * acc + DigitVal(Head(b)))

\* int(s) for a string int() accepts
int(s) ==
    LET t == strip(s) IN
    IF Head(t) = "-" THEN 0 - DigitsValue(Unsigned(t), 0) ELSE DigitsValue(Unsigned(t), 0)

RECURSIVE NatStr(_)
NatStr(n) == IF n < 10 THEN <<DigitChar(n)>> ELSE NatStr(n \div 10) \o <<DigitChar(n % 10)>>

\* str(n), as the f-string formats the section number
str(n) == IF n < 0 THEN <<"-">> \o NatStr(0 - n) ELSE NatStr(n)

(* ---------------------------- paths ------------------------------------ *)

Comp(id, slug) == [id |-> id, slug |-> slug]

RelPath(comps) == [abs |-> FALSE, comps |-> comps]

AbsPath(comps) == [abs |-> TRUE, comps |-> comps]

\* self.firefox_dir, an absolute directory
firefox_dir == <<Comp(0, <<"f", "f">>)>>

\* the directory a relative Path(...) is resolved against by exists()
cwd == <<Comp(0, <<"c", "w", "d">>)>>

\* the literal 'Unknown'
Unknown == <<"U", "n", "k", "n", "o", "w", "n">>

\* pathlib's base / p: an absolute p replaces the base
join(base, p) == IF p.abs THEN p.comps ELSE base \o p.comps

\* Path.name: the last component
basename(dir) == RelPath(<<dir[Len(dir)]>>)

IsPrefix(d, e) == Len(d) <= Len(e) /\ SubSeq(e, 1, Len(d)) = d

\* shutil.rmtree(dir): dir and everything below it
rmtree(dirs, dir) == {e \in dirs : ~IsPrefix(dir, e)}

(* ---------------------------- configparser ----------------------------- *)

\* ConfigParser.optionxform: str.lower
optionxform(k) ==
    CASE k = "Name" -> "name"
      [] k = "IsRelative" -> "isrelative"
      [] k = "Path" -> "path"
      [] k = "Default" -> "default"
      [] k = "Locked" -> "locked"
      [] k = "StartWithLastProfile" -> "startwithlastprofile"
      [] OTHER -> k

\* a value as the parser returns it: stripped of surrounding blanks (only Name
\* values carry blanks in the model)
ReadValue(k, v) == IF k = "name" THEN strip(v) ELSE v

ReadOpts(opts) ==
    [lk \in {optionxform(k) : k \in DOMAIN opts} |->
        ReadValue(lk, opts[CHOOSE k \in DOMAIN opts : optionxform(k) = lk])]

\* config = ConfigParser(); config.read(profiles_ini): a missing file reads as empty
ConfigRead(f) ==
    IF f.exists
    THEN [i \in 1..Len(f.secs) |-> [sec |-> f.secs[i].sec, opts |-> ReadOpts(f.secs[i].opts)]]
    ELSE <<>>

\* with open(profiles_ini, 'w') as f: config.write(f)
ConfigWrite(config) == [exists |-> TRUE, secs |-> config]

\* dict.get(k, default)
Get(d, k, default) == IF k \in DOMAIN d THEN d[k] ELSE default

\* section names: "Profile" + rest, or another name
ProfileSec(rest) == [profile |-> TRUE, rest |-> rest]

OtherSec(rest) == [profile |-> FALSE, rest |-> rest]

\* section.startswith('Profile')
startswith_Profile(sec) == sec.profile

(* ---------------------------- load_profiles ---------------------------- *)

\* list.sort(key=...): stable, ascending by key
RECURSIVE InsertByKey(_, _)
InsertByKey(sorted, item) ==
    IF sorted = <<>> THEN <<item>>
    ELSE IF StrLeq(sorted[Len(sorted)].k, item.k) THEN Append(sorted, item)
    ELSE Append(InsertByKey(SubSeq(sorted, 1, Len(sorted) - 1), item), sorted[Len(sorted)])

RECURSIVE SortByKey(_)
SortByKey(items) ==
    IF items = <<>> THEN <<>>
    ELSE InsertByKey(SortByKey(SubSeq(items, 1, Len(items) - 1)), items[Len(items)])

\* the key of profiles.sort: x.get('Name', '') on the dict of a parsed section
SortKey(opts) == Get(opts, "Name", <<>>)

\* the profile directory of a parsed section
profile_path(opts) ==
    LET path == Get(opts, "path", RelPath(<<Comp(0, Unknown)>>))
        is_relative == Get(opts, "isrelative", "1") = "1"
    IN IF is_relative THEN join(firefox_dir, path) ELSE join(cwd, path)

\* one row of the tree; section and dir are profile_data['section'] and
\* profile_path, which the window does not show
Row(p, dirs) ==
    LET path == Get(p.opts, "path", RelPath(<<Comp(0, Unknown)>>))
        dir == profile_path(p.opts)
    IN [name |-> Get(p.opts, "name", Unknown),
        path |-> IF dir \in dirs THEN basename(dir) ELSE path,
        def |-> Get(p.opts, "default", "0") = "1",
        section |-> p.sec,
        dir |-> dir]

\* the rows load_profiles puts in the tree
load_profiles(f, dirs) ==
    IF ~f.exists THEN <<>>
    ELSE LET config == ConfigRead(f)
             profiles == SelectSeq(config, LAMBDA s : startswith_Profile(s.sec))
             keyed == [i \in 1..Len(profiles) |-> [k |-> SortKey(profiles[i].opts), v |-> profiles[i]]]
             sorted == SortByKey(keyed)
         IN [i \in 1..Len(sorted) |-> Row(sorted[i].v, dirs)]

(* ---------------------------- the selected row ------------------------- *)

\* ttk's _convert_stringval on a value of the selected row: int(value) when
\* int() accepts the string, else the string
PyStr(v) == [t |-> "str", s |-> v, n |-> 0]

PyInt(k) == [t |-> "int", s |-> <<>>, n |-> k]

_convert_stringval(v) == IF IsIntLiteral(v) THEN PyInt(int(v)) ELSE PyStr(v)

\* the Path column read back: an int when the shown text is a plain number
IsIntPath(p) == ~p.abs /\ Len(p.comps) = 1 /\ p.comps[1].id = 0 /\ IsIntLiteral(p.comps[1].slug)

\* config[section].get('Name') == name, name a value read back from the row
NameEquals(opts, name) == "name" \in DOMAIN opts /\ name.t = "str" /\ opts["name"] = name.s

\* is_default with the check of the flag lost
is_default_ignored(row) == FALSE

\* "if is_default:" on the Default column read back: the check mark is true, '' false
is_default(row) == row.def

NoRow ==
    [name |-> <<>>, path |-> RelPath(<<>>), def |-> FALSE,
     section |-> OtherSec(<<>>), dir |-> <<>>]

\* the values of the selected row (i = 0: nothing is selected)
get_selected_profile(rows, i) == IF i = 0 THEN NoRow ELSE rows[i]

(* ---------------------------- name validation -------------------------- *)

\* ValidName with isalnum() left out: any name with something besides separators passes
ValidName_nonempty(name) ==
    replace(replace(replace(name, " ", <<>>), "-", <<>>), "_", <<>>) # <<>>

\* name.replace(' ', '').replace('-', '').replace('_', '').isalnum()
ValidName(name) ==
    isalnum(replace(replace(replace(name, " ", <<>>), "-", <<>>), "_", <<>>))

(* ---------------------------- add_profile_to_ini ----------------------- *)

SecIndex(config, sec) == {i \in 1..Len(config) : config[i].sec = sec}

\* config[sec] = opts: an existing section is replaced where it stands
SetSection(config, sec, opts) ==
    IF SecIndex(config, sec) # {}
    THEN [i \in 1..Len(config) |-> IF config[i].sec = sec THEN [sec |-> sec, opts |-> opts] ELSE config[i]]
    ELSE Append(config, [sec |-> sec, opts |-> opts])

\* the numbers of the Profile sections int() can read
profile_numbers(config) ==
    {int(config[i].sec.rest) :
        i \in {j \in 1..Len(config) :
                 startswith_Profile(config[j].sec) /\ IsIntLiteral(config[j].sec.rest)}}

Max(S) == CHOOSE m \in S : \A x \in S : x <= m

\* next_num as the count of numbered sections instead of the largest number + 1
next_num_count(config) == Cardinality(profile_numbers(config))

next_num(config) ==
    IF profile_numbers(config) # {} THEN Max(profile_numbers(config)) + 1 ELSE 0

\* the section name add_profile_to_ini writes to
section_name(config) == ProfileSec(str(next_num(config)))

\* NewOpts with the Name written in the lowercased form used for the directory
NewOpts_lowered(name, path) ==
    (optionxform("Name") :> lower(name)) @@ (optionxform("IsRelative") :> "1")
        @@ (optionxform("Path") :> path)

NewOpts(name, path) ==
    (optionxform("Name") :> name) @@ (optionxform("IsRelative") :> "1")
        @@ (optionxform("Path") :> path)

add_profile_to_ini(f, name, path) ==
    LET config == ConfigRead(f)
    IN ConfigWrite(SetSection(config, section_name(config), NewOpts(name, path)))

(* ---------------------------- rename and delete on the config ---------- *)

\* the first Profile section whose Name is name, 0 when there is none
FirstMatch(config, name) ==
    LET hits == {i \in 1..Len(config) :
                    startswith_Profile(config[i].sec) /\ NameEquals(config[i].opts, name)}
    IN IF hits = {} THEN 0 ELSE CHOOSE i \in hits : \A j \in hits : i <= j

\* config[section]['Name'] = new_name on the first match
RenameInConfig(config, old_name, new_name) ==
    LET m == FirstMatch(config, old_name)
    IN [i \in 1..Len(config) |->
           IF i = m
           THEN [sec |-> config[i].sec,
                 opts |-> (optionxform("Name") :> new_name) @@ config[i].opts]
           ELSE config[i]]

\* config.remove_section(section_to_remove) when a section was found
RemoveFromConfig(config, name) ==
    LET m == FirstMatch(config, name)
    IN IF m = 0 THEN config
       ELSE SubSeq(config, 1, m - 1) \o SubSeq(config, m + 1, Len(config))

(* ---------------------------- inputs and initial registries ------------ *)

\* the names typed into the dialogs; <<>> is an empty or cancelled dialog
NameInputs ==
    { <<>>, <<"a">>, <<" ", "a">>, <<" ", "_">>, <<"a", "!">>, <<"1">>, <<"B", " ", "a">> }

Dir0 == Comp(0, <<"d", "0">>)
Dir1 == Comp(0, <<"d", "1">>)
Dir2 == Comp(0, <<"d", "2">>)
Dir3 == Comp(0, <<"d", "3">>)
Dir4 == Comp(0, <<"d", "4">>)
ProfilesDir == Comp(0, <<"P", "r", "o", "f", "i", "l", "e", "s">>)
DataDir == Comp(0, <<"d", "a", "t", "a">>)

\* [General] StartWithLastProfile=1
GeneralSection ==
    [sec |-> OtherSec(<<"G", "e", "n", "e", "r", "a", "l">>),
     opts |-> ("StartWithLastProfile" :> "1")]

\* Profile sections as the browser writes them
SectionPool ==
    { [sec |-> ProfileSec(<<"0">>),
       opts |-> ("Name" :> <<"b">>) @@ ("IsRelative" :> "1")
                  @@ ("Path" :> RelPath(<<Dir0>>)) @@ ("Default" :> "1") @@ ("Locked" :> "1")],
      [sec |-> ProfileSec(<<"2">>),
       opts |-> ("Name" :> <<"a">>) @@ ("IsRelative" :> "1")
                  @@ ("Path" :> RelPath(<<ProfilesDir, Dir1>>))],
      [sec |-> ProfileSec(<<"0", "3">>),
       opts |-> ("Name" :> <<"a">>) @@ ("IsRelative" :> "0")
                  @@ ("Path" :> AbsPath(<<DataDir, Dir2>>))],
      [sec |-> ProfileSec(<<"X">>),
       opts |-> ("IsRelative" :> "1") @@ ("Path" :> RelPath(<<Dir3>>))],
      [sec |-> ProfileSec(<<"1">>),
       opts |-> ("Name" :> <<"b">>) @@ ("IsRelative" :> "1")
                  @@ ("Path" :> RelPath(<<Dir4>>)) @@ ("Locked" :> "1")] }

InitProfileSeqs ==
    {q \in UNION {[1..n -> SectionPool] : n \in 0..MaxInitProfiles} :
        \A i, j \in 1..Len(q) : i # j => q[i] # q[j]}

\* the directories the sections of a registry file point to
ReferencedDirs(f) ==
    LET config == ConfigRead(f)
    IN {profile_path(config[i].opts) :
          i \in {j \in 1..Len(config) : startswith_Profile(config[j].sec)}}

BaseDirs == {firefox_dir, firefox_dir \o <<ProfilesDir>>, <<DataDir>>}

NoFile == [exists |-> FALSE, secs |-> <<>>]

Outcome(op, result, arg, row, matched, sec) ==
    [op |-> op, result |-> result, arg |-> arg, row |-> row, matched |-> matched, sec |-> sec]

NoSec == OtherSec(<<>>)

Init ==
    /\ \/ /\ file = NoFile
          /\ fs \in {{}, {firefox_dir}}
       \/ /\ \E q \in InitProfileSeqs : file = [exists |-> TRUE, secs |-> <<GeneralSection>> \o q]
          /\ fs \in {BaseDirs, BaseDirs \cup ReferencedDirs(file)}
    /\ tree = load_profiles(file, fs)
    /\ pc = "idle"
    /\ pending = NoRow
    /\ last = Outcome("init", "success", <<>>, NoRow, FALSE, NoSec)
    /\ nextId = 1
    /\ ops = 0

(* ---------------------------- the handlers ----------------------------- *)

\* the Refresh button
Refresh ==
    /\ pc = "idle"
    /\ ops < MaxOps
    /\ ops' = ops + 1
    /\ tree' = load_profiles(file, fs)
    /\ last' = Outcome("list", "success", <<>>, NoRow, FALSE, NoSec)
    /\ UNCHANGED <<file, fs, pc, pending, nextId>>

\* f"{profile_id}.{name.lower().replace(' ', '-')}"
NewProfilePath(id, name) == RelPath(<<Comp(id, replace(lower(name), " ", <<"-">>))>>)

create_profile(name) ==
    /\ pc = "idle"
    /\ ops < MaxOps
    /\ ops' = ops + 1
    /\ UNCHANGED <<pc, pending>>
    /\ IF name = <<>>
       THEN /\ last' = Outcome("create", "cancelled", name, NoRow, FALSE, NoSec)
            /\ UNCHANGED <<file, fs, tree, nextId>>
       ELSE IF ~ValidName(name)
       THEN /\ last' = Outcome("create", "invalid", name, NoRow, FALSE, NoSec)
            /\ UNCHANGED <<file, fs, tree, nextId>>
       ELSE IF firefox_dir \notin fs
       THEN \* full_path.mkdir raises: the parent directory is missing
            /\ last' = Outcome("create", "error", name, NoRow, FALSE, NoSec)
            /\ UNCHANGED <<file, fs, tree, nextId>>
       ELSE LET path == NewProfilePath(nextId, name)
            IN /\ fs' = fs \cup {join(firefox_dir, path)}
               /\ file' = add_profile_to_ini(file, name, path)
               /\ tree' = load_profiles(file', fs')
               /\ nextId' = nextId + 1
               /\ last' = Outcome("create", "success", name, NoRow, FALSE,
                                  section_name(ConfigRead(file)))

rename_profile(i, new_name) ==
    LET row == get_selected_profile(tree, i)
        old_name == _convert_stringval(row.name)
        config == ConfigRead(file)
        matched == FirstMatch(config, old_name) # 0
    IN
    /\ pc = "idle"
    /\ ops < MaxOps
    /\ ops' = ops + 1
    /\ UNCHANGED <<fs, pc, pending, nextId>>
    /\ IF i = 0
       THEN /\ last' = Outcome("rename", "no_selection", new_name, row, FALSE, NoSec)
            /\ UNCHANGED <<file, tree>>
       ELSE IF is_default(row)
       THEN /\ last' = Outcome("rename", "guarded", new_name, row, FALSE, NoSec)
            /\ UNCHANGED <<file, tree>>
       ELSE IF new_name = <<>> \/ PyStr(new_name) = old_name
       THEN /\ last' = Outcome("rename", "cancelled", new_name, row, FALSE, NoSec)
            /\ UNCHANGED <<file, tree>>
       ELSE IF ~ValidName(new_name)
       THEN /\ last' = Outcome("rename", "invalid", new_name, row, FALSE, NoSec)
            /\ UNCHANGED <<file, tree>>
       ELSE /\ file' = ConfigWrite(RenameInConfig(config, old_name, new_name))
            /\ tree' = load_profiles(file', fs)
            /\ last' = Outcome("rename", "success", new_name, row, matched,
                               IF matched THEN config[FirstMatch(config, old_name)].sec ELSE NoSec)

\* delete_profile up to the rewrite of profiles.ini
delete_profile(i, confirm) ==
    LET row == get_selected_profile(tree, i)
        name == _convert_stringval(row.name)
        config == ConfigRead(file)
        matched == FirstMatch(config, name) # 0
    IN
    /\ pc = "idle"
    /\ ops < MaxOps
    /\ ops' = ops + 1
    /\ UNCHANGED <<fs, tree, nextId>>
    /\ IF i = 0
       THEN /\ last' = Outcome("delete", "no_selection", <<>>, row, FALSE, NoSec)
            /\ UNCHANGED <<file, pc, pending>>
       ELSE IF is_default(row)
       THEN /\ last' = Outcome("delete", "guarded", <<>>, row, FALSE, NoSec)
            /\ UNCHANGED <<file, pc, pending>>
       ELSE IF ~confirm
       THEN /\ last' = Outcome("delete", "cancelled", <<>>, row, FALSE, NoSec)
            /\ UNCHANGED <<file, pc, pending>>
       ELSE /\ file' = ConfigWrite(RemoveFromConfig(config, name))
            /\ pc' = "rmtree"
            /\ pending' = row
            /\ last' = Outcome("delete", "written", <<>>, row, matched,
                               IF matched THEN config[FirstMatch(config, name)].sec ELSE NoSec)

\* delete_profile from the removal of the directory on
delete_profile_rmtree ==
    /\ pc = "rmtree"
    /\ pc' = "idle"
    /\ pending' = NoRow
    /\ UNCHANGED <<file, nextId, ops>>
    /\ IF IsIntPath(pending.path)
       THEN \* self.firefox_dir / path raises TypeError: path was read back as an int
            /\ last' = [last EXCEPT !.result = "error"]
            /\ UNCHANGED <<fs, tree>>
       ELSE /\ fs' = rmtree(fs, join(firefox_dir, pending.path))
            /\ tree' = load_profiles(file, fs')
            /\ last' = [last EXCEPT !.result = "success"]

\* shutil.rmtree raises: nothing is removed, the list is not refreshed
delete_profile_rmtree_fails ==
    /\ pc = "rmtree"
    /\ ~IsIntPath(pending.path)
    /\ join(firefox_dir, pending.path) \in fs
    /\ pc' = "idle"
    /\ pending' = NoRow
    /\ last' = [last EXCEPT !.result = "error"]
    /\ UNCHANGED <<file, fs, tree, nextId, ops>>

\* the process ends after the rewrite of profiles.ini, before the removal
Stop ==
    /\ pc = "rmtree"
    /\ pc' = "stopped"
    /\ last' = [last EXCEPT !.result = "stopped"]
    /\ UNCHANGED <<file, fs, tree, pending, nextId, ops>>

Next ==
    \/ Refresh
    \/ \E name \in NameInputs : create_profile(name)
    \/ \E i \in 0..Len(tree), new_name \in NameInputs : rename_profile(i, new_name)
    \/ \E i \in 0..Len(tree), confirm \in BOOLEAN : delete_profile(i, confirm)
    \/ delete_profile_rmtree
    \/ delete_profile_rmtree_fails
    \/ Stop

Spec == Init /\ [][Next]_vars

(* ---------------------------- claims ----------------------------------- *)

\* a step that is the start of a handler (one press of a button)
HandlerStep == ops' = ops + 1

RowNames(rows) == {rows[i].name : i \in 1..Len(rows)}

SectionNames(f) == {f.secs[i].sec : i \in 1..Len(f.secs)}

\* C1: after a confirmed delete of a listed non-default record completes
\* without error, the list has no record of that name and the record's
\* backing directory (its Path resolved per IsRelative) no longer exists.
C1_DeleteRemovesRecordAndDirectory ==
    (last.op = "delete" /\ last.result = "success" /\ ~last.row.def)
        => (last.row.name \notin RowNames(tree) /\ last.row.dir \notin fs)

\* C2: a rename or delete requested on a listed record whose is_default flag
\* is true is refused and leaves the registry file and the directories as
\* they were.
C2_DefaultRecordGuarded ==
    [][(HandlerStep /\ last'.op \in {"rename", "delete"} /\ last'.row.def)
          => (last'.result = "guarded" /\ file' = file /\ fs' = fs)]_vars

C2_Witness ==
    /\ last.op = "delete" /\ last.result = "guarded" /\ last.row.def
    /\ last.row.name \in RowNames(tree)
    /\ last.row.dir \in fs

\* the Path of every Profile section, by section name
SectionPaths(f) ==
    LET config == ConfigRead(f)
    IN {<<config[i].sec, Get(config[i].opts, "path", RelPath(<<>>))>> :
          i \in {j \in 1..Len(config) : startswith_Profile(config[j].sec)}}

\* C3: after rename(old, new) of a listed non-default record with a valid new
\* name different from old completes without error, the list shows a record
\* named new and none named old, and the Path of every Profile section and
\* every directory is unchanged.
C3_RenameShowsNewNotOld ==
    [][(HandlerStep /\ last'.op = "rename" /\ last'.result = "success")
          => /\ last'.arg \in RowNames(tree')
             /\ last'.row.name \notin RowNames(tree')
             /\ SectionPaths(file') = SectionPaths(file)
             /\ fs' = fs]_vars

\* a name with a character other than a letter, digit, space, hyphen or underscore
HasForbiddenChar(name) ==
    \E i \in 1..Len(name) : name[i] \notin Letters \cup Digits \cup {" ", "-", "_"}

AllowedOnly(name) == name # <<>> /\ ~HasForbiddenChar(name)

HasAlnum(name) == \E i \in 1..Len(name) : name[i] \in Letters \cup Digits

\* C5 as stated: for every non-empty name made only of letters, digits,
\* spaces, hyphens and underscores, with no I/O failure, create succeeds and
\* the list has a record whose name is exactly the given string.
C5_CreateListsExactName ==
    (last.op = "create" /\ AllowedOnly(last.arg) /\ last.result # "error")
        => (last.result = "success" /\ last.arg \in RowNames(tree))

\* C5 amended: such a name with at least one letter or digit is created and
\* the record of the new section is listed under the name with its leading
\* and trailing spaces removed; a name with no letter or digit is rejected.
C5_CreateListsStrippedName ==
    (last.op = "create" /\ AllowedOnly(last.arg) /\ last.result # "error")
        => IF HasAlnum(last.arg)
           THEN /\ last.result = "success"
                /\ \E i \in 1..Len(tree) :
                      tree[i].section = last.sec /\ tree[i].name = strip(last.arg)
           ELSE last.result = "invalid" /\ last.sec \notin SectionNames(file)

C5_Witness ==
    /\ last.op = "create" /\ last.result = "success" /\ last.arg = <<" ", "a">>
    /\ \E i \in 1..Len(tree) : tree[i].section = last.sec /\ tree[i].name = <<"a">>

\* C6: a create, rename or delete changes only the Profile section it
\* targets: every other section of the file is in the rewritten file with
\* the same keys, spelled the same, and the same values.
C6_OtherSectionsVerbatim ==
    [][(HandlerStep /\ last'.op \in {"create", "rename", "delete"}
            /\ last'.result \in {"success", "written"})
          => \A i \in 1..Len(file.secs) :
                file.secs[i].sec # last'.sec
                    => \E j \in 1..Len(file'.secs) : file'.secs[j] = file.secs[i]]_vars

\* the numbers that end the names of the Profile sections of a file
NumericSuffixes(f) ==
    {int(f.secs[i].sec.rest) :
        i \in {j \in 1..Len(f.secs) :
                 f.secs[j].sec.profile /\ IsIntLiteral(f.secs[j].sec.rest)}}

\* C7: create writes its record to Profile<N>, N the largest numeric suffix
\* of the Profile sections + 1, or 0 when there is none; that name is the
\* name of no section already in the file, and every section that was in the
\* file is still there, followed by the new one.
C7_CreateAllocatesFreshSection ==
    [][(HandlerStep /\ last'.op = "create" /\ last'.result = "success")
          => LET S == NumericSuffixes(file)
                 new == last'.sec
             IN /\ new.profile /\ IsIntLiteral(new.rest) /\ str(int(new.rest)) = new.rest
                /\ IF S = {} THEN int(new.rest) = 0
                   ELSE int(new.rest) - 1 \in S /\ \A x \in S : x < int(new.rest)
                /\ new \notin SectionNames(file)
                /\ Len(file'.secs) = Len(file.secs) + 1
                /\ file'.secs[Len(file'.secs)].sec = new
                /\ \A i \in 1..Len(file.secs) : ConfigRead(file')[i] = ConfigRead(file)[i]]_vars

C7_Witness ==
    /\ last.op = "create" /\ last.result = "success"
    /\ last.sec = ProfileSec(<<"3">>)
    /\ {ProfileSec(<<"0">>), ProfileSec(<<"2">>), ProfileSec(<<"3">>)} \subseteq SectionNames(file)
    /\ ProfileSec(<<"1">>) \notin SectionNames(file)

\* C8: whatever the order of the Profile sections in the file, list returns
\* the records sorted by name, ascending.
C8_ListSortedByName ==
    LET rows == load_profiles(file, fs)
    IN \A i, j \in 1..Len(rows) : i < j => StrLeq(rows[i].name, rows[j].name)

\* C9: a rename that passes the guards and the validation while no Profile
\* section has a Name equal to old_name reports not-found, not success.
C9_RenameReportsNotFound ==
    (last.op = "rename" /\ ~last.matched
        /\ last.result \notin {"no_selection", "guarded", "cancelled", "invalid"})
        => last.result = "not_found"

\* C10: in delete the directory is removed only once the registry file no
\* longer has the record's section, and a failure or a stop after the
\* rewrite leaves the file without that section and the directory on disk.
C10_SectionGoneBeforeDirectory ==
    [][pc = "rmtree"
          => /\ fs' # fs => pending.section \notin SectionNames(file)
             /\ last'.result \in {"error", "stopped"}
                   => /\ file' = file /\ fs' = fs
                      /\ pending.section \notin SectionNames(file')]_vars

\* the Profile sections of a file that carry Default=1, each with its Name as read
DefaultSections(f) ==
    LET config == ConfigRead(f)
    IN {<<config[i].sec, Get(config[i].opts, "name", Unknown)>> :
          i \in {j \in 1..Len(config) :
                   /\ startswith_Profile(config[j].sec)
                   /\ Get(config[j].opts, "default", "0") = "1"}}

\* C11: whatever list, create, rename and delete do, on any registry (also
\* one where two Profile sections share a Name), a Profile section that
\* carries Default=1 stays in the registry file with its Name as it was.
C11_DefaultSectionKept ==
    [][DefaultSections(file) \subseteq DefaultSections(file')]_vars

====
